---- MODULE Spec2Model ----
(***************************************************************************)
(* Model of package command (src/command.go): a Command runs an external  *)
(* process, reads its stdout and stderr line by line (readStream), fans   *)
(* the two line channels into one (merge), forwards or aggregates the     *)
(* merged events (Execute) and publishes the final state after cmd.Wait() *)
(* (wait).  Every goroutine is a process with a program counter; a send   *)
(* on an unbuffered channel is one step taken jointly with its receiver;  *)
(* a select with several ready cases is a nondeterministic choice.        *)
(***************************************************************************)
EXTENDS Integers, Sequences, FiniteSets, TLC

\* ---------------------------------------------------------------- bounds
MaxLines == 2          \* most lines the process writes to both streams
MaxFinalReads == 2     \* most receives the caller performs on c.finalState

\* ---------------------------------------------------------------- values
Streams == {"stdout", "stderr"}

\* The outcomes cmd.Wait() / processState.ExitCode() can report.
WaitOutcomes ==
    { [err |-> "nil", exit |-> 0],
      [err |-> "exit status 10", exit |-> 10],
      [err |-> "signal: killed", exit |-> -1] }

\* The first n lines a process writes to a stream: "a", "b", "a", ...
Script(n) == [i \in 1..n |-> IF i % 2 = 1 THEN "a" ELSE "b"]

\* The outputs of the processes considered: at most MaxLines lines in all.
Outputs ==
    { [stdout |-> Script(p[1]), stderr |-> Script(p[2])] :
        p \in { q \in (0..MaxLines) \X (0..MaxLines) :
                  q[1] + q[2] <= MaxLines } }

\* ----------------------------------------------------- pure constructors
newStreamData(data, isErr) ==
    [kind |-> "stream", data |-> data, isStderr |-> isErr, err |-> "nil"]

newCommandResult(out, err) ==
    [kind |-> "result", stdout |-> out, stderr |-> err]

newCommandEvent(data, err) == [data |-> data, err |-> err]

commandState(err, exit) == [exit |-> exit, err |-> err]

\* CommandData.Stdout() / Stderr() / Out() of both implementations.
Stdout(d) ==
    IF d.kind = "result" THEN d.stdout
    ELSE IF ~d.isStderr THEN <<d.data>> ELSE <<>>

Stderr(d) ==
    IF d.kind = "result" THEN d.stderr
    ELSE IF d.isStderr THEN <<d.data>> ELSE <<>>

\* Variant of Out() that forgets to append the stderr lines.
OutStdoutOnly(d) ==
    IF d.kind = "result" THEN d.stdout ELSE <<d.data>>

Out(d) ==
    IF d.kind = "result" THEN d.stdout \o d.stderr ELSE <<d.data>>

NoEvent == [data |-> [kind |-> "none"], err |-> "nil"]
NoData == [kind |-> "none"]
NoState == [exit |-> 0, err |-> "unset"]
NoWait == [err |-> "unset", exit |-> 0, ctx |-> FALSE]
\* What a receive on the closed finalState channel yields (a nil interface).
NilState == [exit |-> 0, err |-> "closed"]

\* ---------------------------------------------------------- construction
\* The program names and the constructors a caller may use.
Names == {"", "sh"}
Constructors == {"NewCommand", "NewCommandStream"}

\* Variant of NewCommand that rejects an empty name.
NewCommandChecksName(name, optErr) ==
    IF optErr \/ name = ""
    THEN [cmd |-> FALSE, stream |-> FALSE, panic |-> FALSE,
          err |-> IF optErr THEN "test error" ELSE "empty name"]
    ELSE [cmd |-> TRUE, stream |-> FALSE, err |-> "nil", panic |-> FALSE]

\* NewCommand(ctx, name, args...): applies the options and returns
\* (nil, err) when one fails, else the Command; the name is not examined.
\* optErr: the arguments hold an option that returns an error.
NewCommand(name, optErr) ==
    IF optErr
    THEN [cmd |-> FALSE, stream |-> FALSE, err |-> "test error",
          panic |-> FALSE]
    ELSE [cmd |-> TRUE, stream |-> FALSE, err |-> "nil", panic |-> FALSE]

\* NewCommandStream: cmd, err := NewCommand(...); cmd.stream = true, which
\* dereferences the nil *Command (a panic) when NewCommand failed.
NewCommandStream(name, optErr) ==
    LET r == NewCommand(name, optErr) IN
    IF r.cmd
    THEN [r EXCEPT !.stream = TRUE]
    ELSE [cmd |-> FALSE, stream |-> FALSE, err |-> "none", panic |-> TRUE]

Construct(c, name, optErr) ==
    IF c = "NewCommandStream" THEN NewCommandStream(name, optErr)
    ELSE NewCommand(name, optErr)

\* ----------------------------------------------------------------- state
VARIABLES
    name,          \* Command.name, the program name given to the constructor
    optErr,        \* an option given to the constructor returns an error
    newRet,        \* what the constructor returned
    stream,        \* Command.stream
    mock,          \* which commandService call fails (CommandServiceMock)
    produced,      \* the lines the process writes to each stream
    srcErr,        \* whether reading a stream ends in a read error
    src,           \* the lines of each pipe not yet scanned
    ctxDone,       \* c.ctx.Done() is closed
    executed,      \* Execute() has been called
    execRet,       \* what Execute() returned to its caller
    rrPc,          \* resultReader goroutine of Execute
    errOut,        \* errOut of Execute
    rrV,           \* v of the range loop in resultReader
    rrEvent,       \* event of Execute (the aggregated event)
    bufOut,        \* stdout slice of Execute
    bufErr,        \* stderr slice of Execute
    pipeOpen,      \* pipes handed out by StdoutPipe / StderrPipe
    started,       \* c.cmd.Start() succeeded
    rdPc,          \* readStream goroutine of each stream
    rdEvent,       \* event of readStream
    rdClosed,      \* outStream of readStream is closed
    rdOut,         \* the events sent on outStream of readStream
    mxPc,          \* multiplex goroutine of each stream
    mxEvent,       \* event of multiplex
    wg,            \* sync.WaitGroup counter of merge
    supPc,         \* the goroutine of merge that waits for wg
    readDoneClosed,\* number of close(c.readDone)
    mergedClosed,  \* number of close(mergedStream)
    mergedSent,    \* number of events sent on mergedStream
    wtPc,          \* goroutine of wait()
    waitCalls,     \* number of c.cmd.Wait() calls
    waitEarly,     \* a stream reader had not ended when Wait() was called
    waitRet,       \* what Wait() and ExitCode() reported, and ctx at the call
    state,         \* state of wait()
    finalSent,     \* number of values sent on c.finalState
    finalClosed,   \* number of close(c.finalState)
    outClosed,     \* number of close(outStream) of Execute
    delivered,     \* events the caller received from the event channel
    afterClose,    \* events the caller received after the channel closed
    sawClose,      \* the caller saw the event channel closed
    finalRecv      \* what the caller received from c.finalState

cfgVars == <<name, optErr, newRet, stream, mock, produced, srcErr>>
ctlVars == <<executed, execRet, rrPc, errOut, rrV, rrEvent, bufOut, bufErr,
             pipeOpen, started>>
rdVars == <<src, rdPc, rdEvent, rdClosed, rdOut>>
mxVars == <<mxPc, mxEvent, wg, mergedSent>>
supVars == <<supPc, readDoneClosed, mergedClosed>>
wtVars == <<wtPc, waitCalls, waitEarly, waitRet, state, finalSent,
           finalClosed>>
callerVars == <<outClosed, delivered, afterClose, sawClose, finalRecv>>

vars == <<cfgVars, ctxDone, ctlVars, rdVars, mxVars, supVars, wtVars,
          callerVars>>

\* --------------------------------------------------------- initial state
\* NewCommand / NewCommandStream: fresh channels, nothing running.  The
\* process handle of an empty program name opens its pipes and fails in
\* Start() (exec.CommandContext defers the lookup error to Start).
Init ==
    /\ name \in Names
    /\ optErr \in BOOLEAN
    /\ \E c \in Constructors :
         /\ newRet = Construct(c, name, optErr)
         /\ stream = newRet.stream
    /\ mock \in [errStdoutPipe : BOOLEAN, errStderrPipe : BOOLEAN,
                 errStart : BOOLEAN]
    /\ name = "" =>
         mock = [errStdoutPipe |-> FALSE, errStderrPipe |-> FALSE,
                 errStart |-> TRUE]
    /\ produced \in Outputs
    /\ srcErr \in [Streams -> BOOLEAN]
    /\ src = produced
    /\ ctxDone = FALSE
    /\ executed = FALSE
    /\ execRet = [chan |-> FALSE, err |-> "none"]
    /\ rrPc = "idle"
    /\ errOut = "nil"
    /\ rrV = NoEvent
    /\ rrEvent = NoEvent
    /\ bufOut = <<>>
    /\ bufErr = <<>>
    /\ pipeOpen = [s \in Streams |-> FALSE]
    /\ started = FALSE
    /\ rdPc = [s \in Streams |-> "idle"]
    /\ rdEvent = [s \in Streams |-> NoData]
    /\ rdClosed = [s \in Streams |-> FALSE]
    /\ rdOut = [s \in Streams |-> <<>>]
    /\ mxPc = [s \in Streams |-> "idle"]
    /\ mxEvent = [s \in Streams |-> NoEvent]
    /\ wg = 0
    /\ mergedSent = 0
    /\ supPc = "idle"
    /\ readDoneClosed = 0
    /\ mergedClosed = 0
    /\ wtPc = "idle"
    /\ waitCalls = 0
    /\ waitEarly = FALSE
    /\ waitRet = NoWait
    /\ state = NoState
    /\ finalSent = 0
    /\ finalClosed = 0
    /\ outClosed = 0
    /\ delivered = <<>>
    /\ afterClose = <<>>
    /\ sawClose = FALSE
    /\ finalRecv = <<>>


\* ---------------------------------------------------------- cancellation
\* The governing context is cancelled or times out.
Cancel ==
    /\ ~ctxDone
    /\ ctxDone' = TRUE
    /\ UNCHANGED <<cfgVars, ctlVars, rdVars, mxVars, supVars, wtVars,
                   callerVars>>

\* ------------------------------------------------------------- Execute
\* Execute(): makes outStream, starts resultReader, returns (outStream, nil).
Execute ==
    /\ newRet.cmd
    /\ ~executed
    /\ executed' = TRUE
    /\ execRet' = [chan |-> TRUE, err |-> "nil"]
    /\ rrPc' = "start"
    /\ UNCHANGED <<errOut, rrV, rrEvent, bufOut, bufErr, pipeOpen, started>>
    /\ UNCHANGED <<cfgVars, ctxDone, rdVars, mxVars, supVars, wtVars,
                   callerVars>>

\* Variant of start() that does not check the error of StderrPipe().
startIgnoresStderrPipeErr(m) ==
    IF m.errStdoutPipe
    THEN [err |-> "errStdoutPipe", open |-> {}, started |-> FALSE]
    ELSE IF m.errStart
    THEN [err |-> "errStart", open |-> Streams, started |-> FALSE]
    ELSE [err |-> "nil", open |-> Streams, started |-> TRUE]

\* start(): StdoutPipe, StderrPipe, Start, each returning on its error.
start(m) ==
    IF m.errStdoutPipe
    THEN [err |-> "errStdoutPipe", open |-> {}, started |-> FALSE]
    ELSE IF m.errStderrPipe
    THEN [err |-> "errStderrPipe", open |-> {"stdout"}, started |-> FALSE]
    ELSE IF m.errStart
    THEN [err |-> "errStart", open |-> Streams, started |-> FALSE]
    ELSE [err |-> "nil", open |-> Streams, started |-> TRUE]

\* resultReader calls c.start(); on success start() has run merge(), which
\* started both readStream goroutines, both multiplex goroutines and the
\* goroutine waiting for the WaitGroup; on error resultReader returns.
RRStart ==
    /\ rrPc = "start"
    /\ LET r == start(mock) IN
        /\ errOut' = r.err
        /\ pipeOpen' = [s \in Streams |-> s \in r.open]
        /\ started' = r.started
        /\ bufOut' = <<>>
        /\ bufErr' = <<>>
        /\ IF r.err # "nil"
           THEN /\ rrPc' = "done"
                /\ UNCHANGED <<rdPc, mxPc, wg, supPc>>
           ELSE /\ rrPc' = "range"
                /\ rdPc' = [s \in Streams |-> "scan"]
                /\ mxPc' = [s \in Streams |-> "recv"]
                /\ wg' = Cardinality(Streams)
                /\ supPc' = "wgwait"
    /\ UNCHANGED <<executed, execRet, rrV, rrEvent>>
    /\ UNCHANGED <<cfgVars, ctxDone, src, rdEvent, rdClosed, rdOut, mxEvent,
                   mergedSent, readDoneClosed, mergedClosed, wtVars,
                   callerVars>>

\* ------------------------------------------------------------ readStream
\* Variant of RdScan for a readStream that does not consult scanner.Err():
\* a failed read ends the sequence like EOF.
RdScanIgnoresErr(s) ==
    /\ rdPc[s] = "scan"
    /\ IF src[s] # <<>>
       THEN /\ rdEvent' = [rdEvent EXCEPT
                             ![s] = newStreamData(Head(src[s]), s = "stderr")]
            /\ src' = [src EXCEPT ![s] = Tail(src[s])]
            /\ rdPc' = [rdPc EXCEPT ![s] = "send"]
       ELSE /\ rdPc' = [rdPc EXCEPT ![s] = "closing"]
            /\ UNCHANGED <<src, rdEvent>>
    /\ UNCHANGED <<rdClosed, rdOut>>
    /\ UNCHANGED <<cfgVars, ctxDone, ctlVars, mxVars, supVars, wtVars,
                   callerVars>>

\* scanner.Scan(): the next line, or the end of the input (EOF or a read
\* error, which scanner.Err() then reports).
RdScan(s) ==
    /\ rdPc[s] = "scan"
    /\ IF src[s] # <<>>
       THEN /\ rdEvent' = [rdEvent EXCEPT
                             ![s] = newStreamData(Head(src[s]), s = "stderr")]
            /\ src' = [src EXCEPT ![s] = Tail(src[s])]
            /\ rdPc' = [rdPc EXCEPT ![s] = "send"]
       ELSE IF srcErr[s]
       THEN /\ rdEvent' = [rdEvent EXCEPT
                  ![s] = [newStreamData("", s = "stderr")
                            EXCEPT !.err = "errRead"]]
            /\ rdPc' = [rdPc EXCEPT ![s] = "sendErr"]
            /\ UNCHANGED src
       ELSE /\ rdPc' = [rdPc EXCEPT ![s] = "closing"]
            /\ UNCHANGED <<src, rdEvent>>
    /\ UNCHANGED <<rdClosed, rdOut>>
    /\ UNCHANGED <<cfgVars, ctxDone, ctlVars, mxVars, supVars, wtVars,
                   callerVars>>

\* What multiplex makes of a streamData it received.
multiplexEvent(i) == newCommandEvent(newStreamData(i.data, i.isStderr), "nil")

\* case outStream <- event (line 247), received by `for i := range c`.
RdSend(s) ==
    /\ rdPc[s] = "send"
    /\ mxPc[s] = "recv"
    /\ mxEvent' = [mxEvent EXCEPT ![s] = multiplexEvent(rdEvent[s])]
    /\ mxPc' = [mxPc EXCEPT ![s] = "fwd"]
    /\ rdPc' = [rdPc EXCEPT ![s] = "scan"]
    /\ rdOut' = [rdOut EXCEPT ![s] = Append(rdOut[s], rdEvent[s])]
    /\ UNCHANGED <<src, rdEvent, rdClosed, wg, mergedSent>>
    /\ UNCHANGED <<cfgVars, ctxDone, ctlVars, supVars, wtVars, callerVars>>

\* Variant of RdCtxDone that continues the scan loop instead of leaving it.
RdCtxDoneContinue(s) ==
    /\ rdPc[s] = "send"
    /\ ctxDone
    /\ rdPc' = [rdPc EXCEPT ![s] = "scan"]
    /\ UNCHANGED <<src, rdEvent, rdClosed, rdOut>>
    /\ UNCHANGED <<cfgVars, ctxDone, ctlVars, mxVars, supVars, wtVars,
                   callerVars>>

\* case <-ctx.Done(): break ForLoop (line 245); scanner.Err() is nil.
RdCtxDone(s) ==
    /\ rdPc[s] = "send"
    /\ ctxDone
    /\ rdPc' = [rdPc EXCEPT ![s] = "closing"]
    /\ UNCHANGED <<src, rdEvent, rdClosed, rdOut>>
    /\ UNCHANGED <<cfgVars, ctxDone, ctlVars, mxVars, supVars, wtVars,
                   callerVars>>

\* case outStream <- event of the error event (line 256).
RdSendErr(s) ==
    /\ rdPc[s] = "sendErr"
    /\ mxPc[s] = "recv"
    /\ mxEvent' = [mxEvent EXCEPT ![s] = multiplexEvent(rdEvent[s])]
    /\ mxPc' = [mxPc EXCEPT ![s] = "fwd"]
    /\ rdPc' = [rdPc EXCEPT ![s] = "closing"]
    /\ rdOut' = [rdOut EXCEPT ![s] = Append(rdOut[s], rdEvent[s])]
    /\ UNCHANGED <<src, rdEvent, rdClosed, wg, mergedSent>>
    /\ UNCHANGED <<cfgVars, ctxDone, ctlVars, supVars, wtVars, callerVars>>

\* case <-ctx.Done(): return (line 254).
RdErrCtxDone(s) ==
    /\ rdPc[s] = "sendErr"
    /\ ctxDone
    /\ rdPc' = [rdPc EXCEPT ![s] = "closing"]
    /\ UNCHANGED <<src, rdEvent, rdClosed, rdOut>>
    /\ UNCHANGED <<cfgVars, ctxDone, ctlVars, mxVars, supVars, wtVars,
                   callerVars>>

\* defer close(outStream) (line 239).
RdClose(s) ==
    /\ rdPc[s] = "closing"
    /\ rdClosed' = [rdClosed EXCEPT ![s] = TRUE]
    /\ rdPc' = [rdPc EXCEPT ![s] = "done"]
    /\ UNCHANGED <<src, rdEvent, rdOut>>
    /\ UNCHANGED <<cfgVars, ctxDone, ctlVars, mxVars, supVars, wtVars,
                   callerVars>>

\* ----------------------------------------------------------------- merge
\* Variant of MxRangeClosed whose wg.Done() releases the whole WaitGroup, as
\* if merge had called wg.Add(1) for all channels together.
MxRangeClosedEndsAll(s) ==
    /\ mxPc[s] = "recv"
    /\ rdClosed[s]
    /\ mxPc' = [mxPc EXCEPT ![s] = "done"]
    /\ wg' = 0
    /\ UNCHANGED <<mxEvent, mergedSent>>
    /\ UNCHANGED <<cfgVars, ctxDone, ctlVars, rdVars, supVars, wtVars,
                   callerVars>>

\* `for i := range c` ends on the closed channel; defer wg.Done().
MxRangeClosed(s) ==
    /\ mxPc[s] = "recv"
    /\ rdClosed[s]
    /\ mxPc' = [mxPc EXCEPT ![s] = "done"]
    /\ wg' = wg - 1
    /\ UNCHANGED <<mxEvent, mergedSent>>
    /\ UNCHANGED <<cfgVars, ctxDone, ctlVars, rdVars, supVars, wtVars,
                   callerVars>>

\* Variant of MxCtxDone for a multiplex that sends without a select on
\* ctx.Done(): the case never fires.
MxCtxDoneMissing(s) ==
    /\ mxPc[s] = "fwd"
    /\ FALSE
    /\ UNCHANGED vars

\* case <-ctx.Done(): return (line 288); defer wg.Done().
MxCtxDone(s) ==
    /\ mxPc[s] = "fwd"
    /\ ctxDone
    /\ mxPc' = [mxPc EXCEPT ![s] = "done"]
    /\ wg' = wg - 1
    /\ UNCHANGED <<mxEvent, mergedSent>>
    /\ UNCHANGED <<cfgVars, ctxDone, ctlVars, rdVars, supVars, wtVars,
                   callerVars>>

\* Variant of MxForward for a resultReader that forwards every merged event
\* to the caller without testing c.stream.
MxForwardIgnoresMode(s) ==
    /\ mxPc[s] = "fwd"
    /\ rrPc = "range"
    /\ mergedClosed = 0
    /\ mergedSent' = mergedSent + 1
    /\ mxPc' = [mxPc EXCEPT ![s] = "recv"]
    /\ rrV' = mxEvent[s]
    /\ rrPc' = "fwdOut"
    /\ UNCHANGED <<executed, execRet, errOut, rrEvent, bufOut, bufErr,
                   pipeOpen, started, mxEvent, wg>>
    /\ UNCHANGED <<cfgVars, ctxDone, rdVars, supVars, wtVars, callerVars>>

\* case mergedStream <- event (line 290), received by resultReader's
\* `for v := range inStream`: held for forwarding when streaming, else
\* appended to the stderr and stdout slices (lines 366-375).
MxForward(s) ==
    /\ mxPc[s] = "fwd"
    /\ rrPc = "range"
    /\ mergedClosed = 0
    /\ mergedSent' = mergedSent + 1
    /\ mxPc' = [mxPc EXCEPT ![s] = "recv"]
    /\ IF stream
       THEN /\ rrV' = mxEvent[s]
            /\ rrPc' = "fwdOut"
            /\ UNCHANGED <<bufOut, bufErr>>
       ELSE /\ bufErr' = bufErr \o Stderr(mxEvent[s].data)
            /\ bufOut' = bufOut \o Stdout(mxEvent[s].data)
            /\ UNCHANGED <<rrV, rrPc>>
    /\ UNCHANGED <<executed, execRet, errOut, rrEvent, pipeOpen, started,
                   mxEvent, wg>>
    /\ UNCHANGED <<cfgVars, ctxDone, rdVars, supVars, wtVars, callerVars>>

\* Variant of SupCloseReadDone without wg.Wait().
SupCloseReadDoneNoWgWait ==
    /\ supPc = "wgwait"
    /\ readDoneClosed' = readDoneClosed + 1
    /\ supPc' = "closeMerged"
    /\ UNCHANGED mergedClosed
    /\ UNCHANGED <<cfgVars, ctxDone, ctlVars, rdVars, mxVars, wtVars,
                   callerVars>>

\* wg.Wait() returns; close(c.readDone) (lines 303-304).
SupCloseReadDone ==
    /\ supPc = "wgwait"
    /\ wg = 0
    /\ readDoneClosed' = readDoneClosed + 1
    /\ supPc' = "closeMerged"
    /\ UNCHANGED mergedClosed
    /\ UNCHANGED <<cfgVars, ctxDone, ctlVars, rdVars, mxVars, wtVars,
                   callerVars>>

\* close(mergedStream) (line 305).
SupCloseMerged ==
    /\ supPc = "closeMerged"
    /\ mergedClosed' = mergedClosed + 1
    /\ supPc' = "callWait"
    /\ UNCHANGED readDoneClosed
    /\ UNCHANGED <<cfgVars, ctxDone, ctlVars, rdVars, mxVars, wtVars,
                   callerVars>>

\* c.wait() (line 307) starts the goroutine of wait().
SupCallWait ==
    /\ supPc = "callWait"
    /\ supPc' = "done"
    /\ wtPc' = "gate"
    /\ UNCHANGED <<readDoneClosed, mergedClosed, waitCalls, waitEarly,
                   waitRet, state, finalSent, finalClosed>>
    /\ UNCHANGED <<cfgVars, ctxDone, ctlVars, rdVars, mxVars, callerVars>>

\* ------------------------------------------------------------------ wait
\* <-c.readDone (line 265).
WtGate ==
    /\ wtPc = "gate"
    /\ readDoneClosed > 0
    /\ wtPc' = "call"
    /\ UNCHANGED <<waitCalls, waitEarly, waitRet, state, finalSent, finalClosed>>
    /\ UNCHANGED <<cfgVars, ctxDone, ctlVars, rdVars, mxVars, supVars,
                   callerVars>>

\* Variant of WtCall that calls Wait() again after an error.
WtCallRetry ==
    /\ wtPc = "call"
    /\ \E o \in WaitOutcomes :
         /\ state' = commandState(o.err, IF o.err # "nil" THEN o.exit ELSE 0)
         /\ waitRet' = [err |-> o.err, exit |-> o.exit, ctx |-> ctxDone]
         /\ wtPc' = IF o.err # "nil" /\ waitCalls = 0 THEN "call" ELSE "offer"
    /\ waitCalls' = waitCalls + 1
    /\ waitEarly' = (\E s \in Streams : ~rdClosed[s])
    /\ UNCHANGED <<finalSent, finalClosed>>
    /\ UNCHANGED <<cfgVars, ctxDone, ctlVars, rdVars, mxVars, supVars,
                   callerVars>>

\* Variant of WtCall that reports a cancelled context itself: exit code -1
\* with the context's error, whatever Wait() returned.
WtCallCtxOverride ==
    /\ wtPc = "call"
    /\ \E o \in WaitOutcomes :
         /\ state' = IF ctxDone
                      THEN commandState("context deadline exceeded", -1)
                      ELSE commandState(o.err,
                                        IF o.err # "nil" THEN o.exit ELSE 0)
         /\ waitRet' = [err |-> o.err, exit |-> o.exit, ctx |-> ctxDone]
    /\ waitCalls' = waitCalls + 1
    /\ waitEarly' = (\E s \in Streams : ~rdClosed[s])
    /\ wtPc' = "offer"
    /\ UNCHANGED <<finalSent, finalClosed>>
    /\ UNCHANGED <<cfgVars, ctxDone, ctlVars, rdVars, mxVars, supVars,
                   callerVars>>

\* Variant of WtCall that never reads the exit code from processState.
WtCallNoExitCode ==
    /\ wtPc = "call"
    /\ \E o \in WaitOutcomes :
         /\ state' = commandState(o.err, 0)
         /\ waitRet' = [err |-> o.err, exit |-> o.exit, ctx |-> ctxDone]
    /\ waitCalls' = waitCalls + 1
    /\ waitEarly' = (\E s \in Streams : ~rdClosed[s])
    /\ wtPc' = "offer"
    /\ UNCHANGED <<finalSent, finalClosed>>
    /\ UNCHANGED <<cfgVars, ctxDone, ctlVars, rdVars, mxVars, supVars,
                   callerVars>>

\* err := c.cmd.Wait(); state.exit is read from processState only on an
\* error (lines 266-270).
WtCall ==
    /\ wtPc = "call"
    /\ \E o \in WaitOutcomes :
         /\ state' = commandState(o.err, IF o.err # "nil" THEN o.exit ELSE 0)
         /\ waitRet' = [err |-> o.err, exit |-> o.exit, ctx |-> ctxDone]
    /\ waitCalls' = waitCalls + 1
    /\ waitEarly' = (\E s \in Streams : ~rdClosed[s])
    /\ wtPc' = "offer"
    /\ UNCHANGED <<finalSent, finalClosed>>
    /\ UNCHANGED <<cfgVars, ctxDone, ctlVars, rdVars, mxVars, supVars,
                   callerVars>>

\* Variant of WtOffer that keeps offering the state to further readers.
WtOfferAgain ==
    /\ wtPc = "offer"
    /\ Len(finalRecv) < MaxFinalReads
    /\ finalRecv' = Append(finalRecv, state)
    /\ finalSent' = finalSent + 1
    /\ wtPc' = IF finalSent = 0 THEN "offer" ELSE "closing"
    /\ UNCHANGED <<waitCalls, waitEarly, waitRet, state, finalClosed>>
    /\ UNCHANGED <<outClosed, delivered, afterClose, sawClose>>
    /\ UNCHANGED <<cfgVars, ctxDone, ctlVars, rdVars, mxVars, supVars>>

\* c.finalState <- state (line 271), received by a caller reading Wait().
WtOffer ==
    /\ wtPc = "offer"
    /\ Len(finalRecv) < MaxFinalReads
    /\ finalRecv' = Append(finalRecv, state)
    /\ finalSent' = finalSent + 1
    /\ wtPc' = "closing"
    /\ UNCHANGED <<waitCalls, waitEarly, waitRet, state, finalClosed>>
    /\ UNCHANGED <<outClosed, delivered, afterClose, sawClose>>
    /\ UNCHANGED <<cfgVars, ctxDone, ctlVars, rdVars, mxVars, supVars>>

\* defer close(c.finalState) (line 273).
WtClose ==
    /\ wtPc = "closing"
    /\ finalClosed' = finalClosed + 1
    /\ wtPc' = "done"
    /\ UNCHANGED <<waitCalls, waitEarly, waitRet, state, finalSent>>
    /\ UNCHANGED <<cfgVars, ctxDone, ctlVars, rdVars, mxVars, supVars,
                   callerVars>>

\* The caller receives from the closed c.finalState.
CallerReadFinalClosed ==
    /\ finalClosed > 0
    /\ Len(finalRecv) < MaxFinalReads
    /\ finalRecv' = Append(finalRecv, NilState)
    /\ UNCHANGED <<outClosed, delivered, afterClose, sawClose>>
    /\ UNCHANGED <<cfgVars, ctxDone, ctlVars, rdVars, mxVars, supVars,
                   wtVars>>

\* ---------------------------------------------------------- resultReader
\* The caller's receive of an event e from the event channel.
CallerRecv(e) ==
    /\ execRet.chan
    /\ delivered' = Append(delivered, e)
    /\ afterClose' = IF outClosed > 0 THEN Append(afterClose, e)
                     ELSE afterClose
    /\ UNCHANGED <<outClosed, sawClose, finalRecv>>

\* Variant of RRForward whose select has a default case: the event is
\* dropped when the caller is not receiving.
RRForwardOrDrop ==
    /\ rrPc = "fwdOut"
    /\ rrPc' = "range"
    /\ UNCHANGED <<executed, execRet, errOut, rrV, rrEvent, bufOut, bufErr,
                   pipeOpen, started>>
    /\ UNCHANGED <<cfgVars, ctxDone, rdVars, mxVars, supVars, wtVars,
                   callerVars>>

\* streaming: case outStream <- v (line 363).
RRForward ==
    /\ rrPc = "fwdOut"
    /\ CallerRecv(rrV)
    /\ rrPc' = "range"
    /\ UNCHANGED <<executed, execRet, errOut, rrV, rrEvent, bufOut, bufErr,
                   pipeOpen, started>>
    /\ UNCHANGED <<cfgVars, ctxDone, rdVars, mxVars, supVars, wtVars>>

\* Variant of RRCtxDone for a resultReader that sends to the caller without
\* a select on ctx.Done(): the case never fires.
RRCtxDoneMissing ==
    /\ rrPc = "fwdOut"
    /\ FALSE
    /\ UNCHANGED vars

\* streaming: case <-c.ctx.Done(): break ForLoop (line 360).
RRCtxDone ==
    /\ rrPc = "fwdOut"
    /\ ctxDone
    /\ rrPc' = "closing"
    /\ UNCHANGED <<executed, execRet, errOut, rrV, rrEvent, bufOut, bufErr,
                   pipeOpen, started>>
    /\ UNCHANGED <<cfgVars, ctxDone, rdVars, mxVars, supVars, wtVars,
                   callerVars>>

\* `for v := range inStream` ends on the closed mergedStream; when not
\* streaming the aggregated event is built (line 379).
RRRangeClosed ==
    /\ rrPc = "range"
    /\ mergedClosed > 0
    /\ IF stream
       THEN /\ rrPc' = "closing"
            /\ UNCHANGED rrEvent
       ELSE /\ rrEvent' = newCommandEvent(newCommandResult(bufOut, bufErr),
                                          "no error")
            /\ rrPc' = "sendAgg"
    /\ UNCHANGED <<executed, execRet, errOut, rrV, bufOut, bufErr, pipeOpen,
                   started>>
    /\ UNCHANGED <<cfgVars, ctxDone, rdVars, mxVars, supVars, wtVars,
                   callerVars>>

\* buffering: case outStream <- event (line 384).
RRSendAgg ==
    /\ rrPc = "sendAgg"
    /\ CallerRecv(rrEvent)
    /\ rrPc' = "closing"
    /\ UNCHANGED <<executed, execRet, errOut, rrV, rrEvent, bufOut, bufErr,
                   pipeOpen, started>>
    /\ UNCHANGED <<cfgVars, ctxDone, rdVars, mxVars, supVars, wtVars>>

\* buffering: case <-c.ctx.Done() (line 381).
RRAggCtxDone ==
    /\ rrPc = "sendAgg"
    /\ ctxDone
    /\ rrPc' = "sendAggCtx"
    /\ UNCHANGED <<executed, execRet, errOut, rrV, rrEvent, bufOut, bufErr,
                   pipeOpen, started>>
    /\ UNCHANGED <<cfgVars, ctxDone, rdVars, mxVars, supVars, wtVars,
                   callerVars>>

\* buffering: outStream <- event; return (lines 382-383): the channel is
\* left open.
RRSendAggCtx ==
    /\ rrPc = "sendAggCtx"
    /\ CallerRecv(rrEvent)
    /\ rrPc' = "done"
    /\ UNCHANGED <<executed, execRet, errOut, rrV, rrEvent, bufOut, bufErr,
                   pipeOpen, started>>
    /\ UNCHANGED <<cfgVars, ctxDone, rdVars, mxVars, supVars, wtVars>>

\* close(outStream) (line 388).
RRClose ==
    /\ rrPc = "closing"
    /\ outClosed' = outClosed + 1
    /\ rrPc' = "done"
    /\ UNCHANGED <<delivered, afterClose, sawClose, finalRecv>>
    /\ UNCHANGED <<executed, execRet, errOut, rrV, rrEvent, bufOut, bufErr,
                   pipeOpen, started>>
    /\ UNCHANGED <<cfgVars, ctxDone, rdVars, mxVars, supVars, wtVars>>

\* The caller's receive on the event channel reports it closed.
CallerSeeClose ==
    /\ outClosed > 0
    /\ ~sawClose
    /\ sawClose' = TRUE
    /\ UNCHANGED <<outClosed, delivered, afterClose, finalRecv>>
    /\ UNCHANGED <<cfgVars, ctxDone, ctlVars, rdVars, mxVars, supVars,
                   wtVars>>

\* ------------------------------------------------------- specifications
Next ==
    \/ Cancel
    \/ Execute
    \/ RRStart
    \/ \E s \in Streams : RdScan(s)
    \/ \E s \in Streams : RdSend(s)
    \/ \E s \in Streams : RdCtxDone(s)
    \/ \E s \in Streams : RdSendErr(s)
    \/ \E s \in Streams : RdErrCtxDone(s)
    \/ \E s \in Streams : RdClose(s)
    \/ \E s \in Streams : MxRangeClosed(s)
    \/ \E s \in Streams : MxCtxDone(s)
    \/ \E s \in Streams : MxForward(s)
    \/ SupCloseReadDone
    \/ SupCloseMerged
    \/ SupCallWait
    \/ WtGate
    \/ WtCall
    \/ WtOffer
    \/ WtClose
    \/ CallerReadFinalClosed
    \/ RRForward
    \/ RRCtxDone
    \/ RRRangeClosed
    \/ RRSendAgg
    \/ RRAggCtxDone
    \/ RRSendAggCtx
    \/ RRClose
    \/ CallerSeeClose

Spec == Init /\ [][Next]_vars

\* The steps the goroutines take on their own: the Go scheduler runs every
\* goroutine that is not blocked, a select with a ready case does not block,
\* and a read of a pipe of a process that ends (or is killed through the
\* context) returns.
Workers ==
    \/ RRStart
    \/ \E s \in Streams : RdScan(s)
    \/ \E s \in Streams : RdSend(s)
    \/ \E s \in Streams : RdCtxDone(s)
    \/ \E s \in Streams : RdSendErr(s)
    \/ \E s \in Streams : RdErrCtxDone(s)
    \/ \E s \in Streams : RdClose(s)
    \/ \E s \in Streams : MxRangeClosed(s)
    \/ \E s \in Streams : MxCtxDone(s)
    \/ \E s \in Streams : MxForward(s)
    \/ SupCloseReadDone
    \/ SupCloseMerged
    \/ SupCallWait
    \/ WtGate
    \/ WtCall
    \/ WtClose
    \/ RRCtxDone
    \/ RRRangeClosed
    \/ RRAggCtxDone
    \/ RRClose

\* The goroutines run; the caller may stop receiving at any time.
FairSpec == Spec /\ WF_vars(Workers)

\* A caller that calls Execute(), receives from the event channel until it
\* is closed and only then reads Wait().
DrainingCaller ==
    \/ Execute
    \/ RRForward
    \/ RRSendAgg
    \/ RRSendAggCtx
    \/ CallerSeeClose
    \/ WtOffer

DrainNext == Next /\ (finalSent' # finalSent => sawClose)

DrainSpec ==
    /\ Init
    /\ [][DrainNext]_vars
    /\ WF_vars(Workers)
    /\ WF_vars(DrainingCaller /\ DrainNext)


\* A further Execute() on the same Command, called when every goroutine of
\* the previous execution has returned.  The call makes a new outStream and
\* starts a new resultReader, whose start() opens new pipes and runs merge()
\* with new readStream and multiplex goroutines and a new mergedStream; the
\* fields of the Command made by NewCommand (readDone, finalState) are the
\* ones of the previous execution.
ReExecute ==
    /\ newRet.cmd
    /\ executed
    /\ rrPc = "done"
    /\ started =>
          /\ \A s \in Streams : rdPc[s] = "done" /\ mxPc[s] = "done"
          /\ supPc = "done" /\ wtPc = "done"
    /\ execRet' = [chan |-> TRUE, err |-> "nil"]
    /\ rrPc' = "start"
    /\ errOut' = "nil"
    /\ rrV' = NoEvent
    /\ rrEvent' = NoEvent
    /\ bufOut' = <<>>
    /\ bufErr' = <<>>
    /\ src' = produced
    /\ rdPc' = [s \in Streams |-> "idle"]
    /\ rdEvent' = [s \in Streams |-> NoData]
    /\ rdClosed' = [s \in Streams |-> FALSE]
    /\ rdOut' = [s \in Streams |-> <<>>]
    /\ mxPc' = [s \in Streams |-> "idle"]
    /\ mxEvent' = [s \in Streams |-> NoEvent]
    /\ wg' = 0
    /\ mergedSent' = 0
    /\ mergedClosed' = 0
    /\ supPc' = "idle"
    /\ wtPc' = "idle"
    /\ outClosed' = 0
    /\ delivered' = <<>>
    /\ afterClose' = <<>>
    /\ sawClose' = FALSE
    /\ UNCHANGED <<cfgVars, ctxDone, executed, pipeOpen, started,
                   readDoneClosed, waitCalls, waitEarly, waitRet, state,
                   finalSent, finalClosed, finalRecv>>

\* A second close of a closed channel panics and the program ends.
Panicked == readDoneClosed > 1 \/ finalClosed > 1

ReExecNext == ~Panicked /\ (Next \/ ReExecute)

\* Executions of a caller that may call Execute() again on its Command.
ReExecSpec == Init /\ [][ReExecNext]_vars

\* --------------------------------------------------------------- helpers
\* The stdout / stderr lines of a sequence of events, in order of receipt.
RECURSIVE StdoutLines(_)
StdoutLines(evs) ==
    IF evs = <<>> THEN <<>>
    ELSE Stdout(Head(evs).data) \o StdoutLines(Tail(evs))

RECURSIVE StderrLines(_)
StderrLines(evs) ==
    IF evs = <<>> THEN <<>>
    ELSE Stderr(Head(evs).data) \o StderrLines(Tail(evs))

WaitIssued == waitCalls > 0
GateFired == readDoneClosed > 0
FinalReceived == finalSent > 0

\* ---------------------------------------------------------------- claims

\* C1: cmd.Wait() is called only after the completion gate readDone has
\* been closed, and it is called once: never twice, and exactly once by the
\* time the wait goroutine has passed the call.
C1_WaitAfterGateOnce ==
    /\ waitCalls <= 1
    /\ WaitIssued => GateFired /\ started
    /\ wtPc \in {"offer", "closing", "done"} => waitCalls = 1

C1_Witness == started /\ GateFired /\ waitCalls = 1 /\ wtPc = "done"

\* C2: with or without cancellation, cmd.Wait() is not called before both
\* readStream goroutines have ended their sequences (closed their channels).
C2_WaitAfterReadersEnd == WaitIssued => ~waitEarly

\* C3 (as claimed): the caller never receives the FinalState before its
\* event channel has delivered all of its events and has been closed.
C3_FinalAfterEventChannelClosed ==
    FinalReceived => outClosed > 0 /\ rrPc = "done"

\* C3 (amended): the caller never receives the FinalState before both
\* multiplex goroutines have returned, mergedStream has been closed and
\* every event sent on it has been received by resultReader; on the
\* caller's channel at most the last forwarded line (streaming) or the
\* aggregated event (buffering) and the close can still be outstanding.
C3_FinalAfterMergedClosed ==
    FinalReceived =>
        /\ mergedClosed > 0
        /\ \A s \in Streams : mxPc[s] = "done"
        /\ stream => Len(delivered) >= mergedSent - 1
        /\ ~stream => Len(bufOut) + Len(bufErr) = mergedSent

C3_Witness ==
    /\ FinalReceived
    /\ outClosed = 0
    /\ mergedSent > 0
    /\ Len(delivered) < mergedSent


\* C4: a caller that receives from the event channel until it is closed
\* and then reads Wait() never blocks forever: once Execute() was called,
\* the event channel is eventually seen closed and a FinalState received.
C4_DrainThenFinalNeverBlocks == executed ~> (sawClose /\ FinalReceived)

\* C5: once the process was started and the context is cancelled, the
\* execution reaches Finalized (cmd.Wait() called and the FinalState offered
\* on finalState), whether or not the caller keeps receiving.
Finalized == WaitIssued /\ wtPc \in {"offer", "closing", "done"}

C5_CancelledReachesFinalized == (started /\ ctxDone) ~> Finalized

C5_Witness ==
    /\ started /\ ctxDone /\ Finalized
    /\ stream /\ delivered = <<>> /\ produced["stdout"] # <<>>


\* C6: if opening the stdout or the stderr pipe fails, Execute() returns
\* that error to its caller and no event channel.
C6_PipeErrorReturnedByExecute ==
    (execRet.err # "none" /\ (mock.errStdoutPipe \/ mock.errStderrPipe)) =>
        /\ execRet.err \in {"errStdoutPipe", "errStderrPipe"}
        /\ ~execRet.chan

\* C7: the event channel Execute() returned is closed exactly once (so it
\* is closed when resultReader has returned), and no event is delivered on
\* it after the close.
C7_EventChannelClosedOnce ==
    /\ outClosed <= 1
    /\ afterClose = <<>>
    /\ (execRet.chan /\ rrPc = "done") => outClosed = 1

\* C8: at most one FinalState is ever sent on finalState, the channel is
\* closed only after that one value was sent, every further read yields no
\* FinalState, and when the wait goroutine has returned exactly one value
\* was sent and the channel is closed.
C8_OneFinalStateThenClosed ==
    /\ finalSent <= 1
    /\ finalClosed <= 1
    /\ finalClosed > 0 => finalSent = 1
    /\ wtPc = "done" => finalSent = 1 /\ finalClosed = 1
    /\ \A i \in 1..Len(finalRecv) :
         IF i = 1 /\ finalSent = 1
         THEN finalRecv[i] = state /\ finalRecv[i] # NilState
         ELSE finalRecv[i] = NilState

C8_Witness ==
    /\ Len(finalRecv) >= 2
    /\ finalRecv[1] = state
    /\ finalRecv[2] = NilState

\* C9: in a streaming execution without cancellation, a caller that has
\* received until the event channel closed has received, per stream,
\* exactly the lines the process produced, in the order produced.
C9_StreamingDeliversAllLines ==
    (stream /\ ~ctxDone /\ sawClose) =>
        /\ StdoutLines(delivered) = produced["stdout"]
        /\ StderrLines(delivered) = produced["stderr"]

\* C10: in a buffering execution exactly one OutputEvent is emitted (it has
\* been once resultReader has returned), and without cancellation its
\* stdout and stderr sequences are the lines the process produced on each
\* stream, in the order produced.
C10_BufferingOneAggregatedEvent ==
    ~stream =>
        /\ Len(delivered) <= 1
        /\ rrPc = "done" => Len(delivered) = 1
        /\ (~ctxDone /\ Len(delivered) = 1) =>
              /\ Stdout(delivered[1].data) = produced["stdout"]
              /\ Stderr(delivered[1].data) = produced["stderr"]


\* C11: the FinalState the caller receives is determined by the outcome of
\* cmd.Wait(): exit code 0 and no error when Wait() succeeded, else the
\* exit code recorded by the process state together with the Wait() error.
C11_FinalStateFromWaitOutcome ==
    FinalReceived =>
        /\ finalRecv[1].err = waitRet.err
        /\ waitRet.err = "nil" => finalRecv[1].exit = 0
        /\ waitRet.err # "nil" => finalRecv[1].exit = waitRet.exit

C11_Witness ==
    /\ FinalReceived
    /\ finalRecv[1] = [exit |-> 10, err |-> "exit status 10"]


\* C12 (as claimed): whenever the context is cancelled before the
\* execution is finalized, the FinalState received has exit code -1 paired
\* with the cancellation error.
C12_CancelledGivesMinusOneAndCtxError ==
    (FinalReceived /\ waitRet.ctx) =>
        /\ finalRecv[1].exit = -1
        /\ finalRecv[1].err \in {"context canceled",
                                 "context deadline exceeded"}

\* C12 (amended): when the context is cancelled before cmd.Wait() is
\* called, the FinalState is still what Wait() reports: exit code -1 paired
\* with the Wait() error when Wait() reports a killed process (an error and
\* recorded exit code -1), and otherwise the exit code and error of the
\* process that had already exited, never -1.
C12_CancelledReportsWaitOutcome ==
    (FinalReceived /\ waitRet.ctx) =>
        IF waitRet.err # "nil" /\ waitRet.exit = -1
        THEN finalRecv[1] = [exit |-> -1, err |-> waitRet.err]
        ELSE finalRecv[1].exit # -1 /\ finalRecv[1].err = waitRet.err

C12_Witness ==
    /\ FinalReceived
    /\ waitRet.ctx
    /\ finalRecv[1] = [exit |-> -1, err |-> "signal: killed"]


\* The events the caller received that are tagged with stream s and whose
\* Error() is the read error.
ErrorEvents(s) ==
    { i \in 1..Len(delivered) :
        /\ delivered[i].data.kind = "stream"
        /\ delivered[i].data.isStderr = (s = "stderr")
        /\ delivered[i].err = "errRead" }

\* C13: when the read of one stream fails, a streaming caller that receives
\* until the channel closes (no cancellation) has received exactly one event
\* of that stream's origin whose Error() is the read error, and all lines
\* of the sibling stream.
C13_ReadErrorDeliveredAsErrorEvent ==
    (stream /\ ~ctxDone /\ sawClose) =>
        /\ srcErr["stdout"] =>
              /\ Cardinality(ErrorEvents("stdout")) = 1
              /\ SubSeq(StderrLines(delivered), 1, Len(produced["stderr"]))
                    = produced["stderr"]
        /\ srcErr["stderr"] =>
              /\ Cardinality(ErrorEvents("stderr")) = 1
              /\ SubSeq(StdoutLines(delivered), 1, Len(produced["stdout"]))
                    = produced["stdout"]


C15_OptionErrorReturned ==
    optErr =>
        /\ newRet.err = "test error"
        /\ ~newRet.panic
        /\ ~newRet.cmd
        /\ ~started


\* C16: when StdoutPipe(), StderrPipe() or Start() fails, start() returns
\* that error without advancing: no readStream, multiplex, supervisor or
\* wait goroutine is started, readDone is not closed and cmd.Wait() is
\* never called.
C16_FailedStartStartsNothing ==
    ((mock.errStdoutPipe \/ mock.errStderrPipe \/ mock.errStart)
        /\ rrPc \notin {"idle", "start"}) =>
        /\ rrPc = "done"
        /\ errOut = (IF mock.errStdoutPipe THEN "errStdoutPipe"
                     ELSE IF mock.errStderrPipe THEN "errStderrPipe"
                     ELSE "errStart")
        /\ ~started
        /\ \A s \in Streams : rdPc[s] = "idle" /\ mxPc[s] = "idle"
        /\ supPc = "idle" /\ wtPc = "idle" /\ wg = 0
        /\ ~GateFired /\ ~WaitIssued /\ mergedClosed = 0

C16_Witness ==
    /\ rrPc = "done" /\ errOut = "errStderrPipe"
    /\ mock.errStderrPipe /\ ~mock.errStdoutPipe


\* The texts readStream emits for stream s: the lines of the process and,
\* after a failed read, the empty text of the error event.
Emitted(s) == produced[s] \o (IF srcErr[s] THEN <<"">> ELSE <<>>)

IsPrefix(a, b) == Len(a) <= Len(b) /\ SubSeq(b, 1, Len(a)) = a

\* C17 (as claimed): once the context has been cancelled the caller
\* receives no further event on the event channel.
C17_NoEventAfterCancel == [][ctxDone => delivered' = delivered]_vars

\* C17 (amended): after cancellation the caller may still receive events
\* (a select with a ready send may take it, and buffering mode sends the
\* aggregated event on the cancellation branch too); what it receives is
\* only truncated: per stream a prefix of what the readers emitted, and in
\* buffering mode at most the one aggregated event.
C17_CancelOnlyTruncates ==
    ctxDone =>
        /\ IsPrefix(StdoutLines(delivered), Emitted("stdout"))
        /\ IsPrefix(StderrLines(delivered), Emitted("stderr"))
        /\ ~stream => Len(delivered) <= 1

\* The aggregated event was sent on the cancellation branch (line 382).
C17_Witness ==
    /\ ctxDone /\ ~stream
    /\ rrPc = "done" /\ outClosed = 0
    /\ Len(delivered) = 1
    /\ Len(Stdout(delivered[1].data)) < Len(produced["stdout"])


\* C18: for the aggregated result built from the stdout and stderr slices,
\* Out() is all stdout lines in order followed by all stderr lines in
\* order, and Stdout() and Stderr() return the two slices unchanged.
C18_OutIsStdoutThenStderr ==
    rrEvent.data.kind = "result" =>
        LET d == rrEvent.data
            o == Out(d)
        IN  /\ Stdout(d) = bufOut
            /\ Stderr(d) = bufErr
            /\ Len(o) = Len(bufOut) + Len(bufErr)
            /\ \A i \in 1..Len(bufOut) : o[i] = bufOut[i]
            /\ \A j \in 1..Len(bufErr) : o[Len(bufOut) + j] = bufErr[j]

C18_Witness ==
    /\ rrEvent.data.kind = "result"
    /\ delivered = <<rrEvent>>
    /\ bufOut # <<>> /\ bufErr # <<>>
    /\ Out(rrEvent.data) = bufOut \o bufErr


\* C19: when start() fails after a pipe was opened, every opened pipe has
\* been closed by the time start() has returned.
C19_FailedStartReleasesPipes ==
    (rrPc = "done" /\ errOut # "nil") => \A s \in Streams : ~pipeOpen[s]

UnequalSources == Len(Emitted("stdout")) # Len(Emitted("stderr"))

AllMerged == mergedSent = Len(Emitted("stdout")) + Len(Emitted("stderr"))

\* C21: without cancellation and with a caller that keeps receiving, when
\* the two sources have different lengths (one may be empty) merge neither
\* completes early nor deadlocks: mergedStream is closed only after every
\* event of both sources was forwarded on it, and it is eventually closed.
C21_MergeOutlivesShorterSource ==
    /\ []((UnequalSources /\ ~ctxDone /\ mergedClosed > 0) => AllMerged)
    /\ (started /\ UnequalSources) ~> (ctxDone \/ mergedClosed > 0)

C21_Witness ==
    /\ ~ctxDone /\ mergedClosed > 0
    /\ produced["stdout"] = <<>> /\ ~srcErr["stdout"]
    /\ Len(produced["stderr"]) = MaxLines
    /\ mergedSent >= MaxLines

\* C22: once the process was started and the context is cancelled, the
\* event channel is eventually closed and resultReader has returned, in
\* streaming and in buffering mode, even if the caller receives nothing
\* further.
C22_CancelClosesEventChannel ==
    (started /\ ctxDone) ~> (outClosed > 0 /\ rrPc = "done")

\* The number of events the two readStream goroutines emit in all.
TotalEmitted == Len(Emitted("stdout")) + Len(Emitted("stderr"))

\* C23 (as claimed): in a streaming execution without cancellation in
\* which the process produces at least one line and the caller has received
\* nothing from the event channel, readDone is not closed, cmd.Wait() is not
\* called and no FinalState is delivered.
C23_OneLineBlocksGate ==
    (stream /\ ~ctxDone /\ delivered = <<>>
        /\ Len(produced["stdout"]) + Len(produced["stderr"]) >= 1) =>
        ~GateFired /\ ~WaitIssued /\ ~FinalReceived

\* C23 (amended): resultReader holds one event while it waits for the
\* caller, so the backpressure starts at the second undelivered event: in a
\* streaming execution without cancellation, while at least two of the
\* events the readers emit are still undelivered (so for a caller that
\* never receives, when the process produces at least two lines), readDone
\* is not closed, cmd.Wait() is not called and no FinalState is delivered.
C23_SecondEventBlocksGate ==
    (stream /\ ~ctxDone /\ Len(delivered) + 2 <= TotalEmitted) =>
        ~GateFired /\ ~WaitIssued /\ ~FinalReceived /\ finalClosed = 0

\* The caller received nothing: one line is held by resultReader, the next
\* by a multiplex goroutine blocked on mergedStream, and nothing can move.
C23_Witness ==
    /\ stream /\ ~ctxDone /\ delivered = <<>>
    /\ Len(produced["stdout"]) = 2
    /\ rrPc = "fwdOut" /\ mxPc["stdout"] = "fwd" /\ mxPc["stderr"] = "done"
    /\ rdPc["stdout"] = "done"
    /\ wg = 1 /\ supPc = "wgwait" /\ ~GateFired /\ wtPc = "idle"

\* The sequence a readStream of stream s emits when its input yields the
\* lines of the process and then fails: the lines, then the error event.
LineEvents(s) ==
    [i \in 1..Len(produced[s]) |-> newStreamData(produced[s][i], s = "stderr")]

ErrorEvent(s) == [newStreamData("", s = "stderr") EXCEPT !.err = "errRead"]

\* C24: a readStream whose input fails emits the lines read before the
\* failure in order, then exactly one event with empty text, its origin tag
\* and the error, and then closes its channel; nothing follows the error
\* event.  At any time what it has emitted is a prefix of that sequence
\* (a cancellation may cut it short), and it is the whole sequence when the
\* channel is closed without cancellation.
C24_ReadErrorEndsSequence ==
    \A s \in Streams :
        srcErr[s] =>
            /\ IsPrefix(rdOut[s], LineEvents(s) \o <<ErrorEvent(s)>>)
            /\ (rdClosed[s] /\ ~ctxDone) =>
                  rdOut[s] = LineEvents(s) \o <<ErrorEvent(s)>>

C24_Witness ==
    /\ srcErr["stderr"] /\ rdClosed["stderr"] /\ ~ctxDone
    /\ Len(produced["stderr"]) = 1
    /\ Len(rdOut["stderr"]) = 2
    /\ rdOut["stderr"][2] =
          [kind |-> "stream", data |-> "", isStderr |-> TRUE,
           err |-> "errRead"]

\* C25: in a buffering execution (no cancellation) in which the read of a
\* stream fails, the one event published carries the read error, the error
\* event has added no line to its stdout or stderr sequence, and the lines
\* of all other events are in it.
C25_BufferingRecordsReadError ==
    (~stream /\ ~ctxDone /\ Len(delivered) = 1
        /\ (\E s \in Streams : srcErr[s])) =>
        /\ delivered[1].err = "errRead"
        /\ Stdout(delivered[1].data) = produced["stdout"]
        /\ Stderr(delivered[1].data) = produced["stderr"]

\* The merged sequence has ended: both multiplex goroutines returned and
\* mergedStream is closed, after both sources ended or after cancellation.
MergeEnded ==
    /\ mergedClosed > 0
    /\ \A s \in Streams : mxPc[s] = "done"
    /\ ctxDone \/ \A s \in Streams : rdClosed[s]

\* C26: in buffering mode no event is delivered before the merged sequence
\* has ended and every event delivered is an aggregated one; in streaming
\* mode every event delivered wraps exactly one line with its origin, and
\* none is an aggregated event.
C26_EventKindFollowsMode ==
    /\ ~stream =>
          /\ delivered # <<>> => MergeEnded
          /\ Len(delivered) <= 1
          /\ \A i \in 1..Len(delivered) : delivered[i].data.kind = "result"
    /\ stream =>
          \A i \in 1..Len(delivered) :
             LET d == delivered[i].data IN
             /\ d.kind = "stream"
             /\ Len(Out(d)) = 1
             /\ Len(Stdout(d)) + Len(Stderr(d)) = 1
             /\ Stdout(d) # <<>> <=> ~d.isStderr

C26_Witness ==
    /\ stream /\ Len(delivered) = 2
    /\ delivered[1].data = newStreamData("a", TRUE)
    /\ delivered[2].data = newStreamData("a", FALSE)

\* C27: in a buffering execution with no read error and no cancellation
\* the one aggregated event carries no error: its Error() is nil.
C27_AggregatedEventHasNoError ==
    (~stream /\ ~ctxDone /\ (\A s \in Streams : ~srcErr[s])) =>
        \A i \in 1..Len(delivered) : delivered[i].err = "nil"

\* C28: when the process handle lets the pipes be opened and the process
\* started at every Execute(), readDone and finalState are each closed at
\* most once, cmd.Wait() is called at most once and at most one FinalState
\* is sent, however often Execute() is called.
C28_RepeatedExecuteClosesOnce ==
    (~mock.errStdoutPipe /\ ~mock.errStderrPipe /\ ~mock.errStart) =>
        /\ readDoneClosed <= 1
        /\ finalClosed <= 1
        /\ waitCalls <= 1
        /\ finalSent <= 1

\* Both readStream goroutines, both multiplex goroutines, the supervising
\* goroutine of merge and resultReader have returned.
PipelineTerminated ==
    /\ \A s \in Streams : rdPc[s] = "done" /\ mxPc[s] = "done"
    /\ supPc = "done"
    /\ rrPc = "done"

\* C29: in a streaming execution, once the context is cancelled (and the
\* pending reads of the pipes return), both readStream goroutines, both
\* multiplex goroutines, the supervisor and resultReader all return, even
\* if the caller receives nothing more; only the wait goroutine can remain,
\* blocked in its send on finalState until someone reads it.
C29_CancelTerminatesPipeline ==
    (stream /\ started /\ ctxDone) ~>
        (PipelineTerminated /\ outClosed = 1 /\ wtPc \in {"offer", "done"})

C29_Witness ==
    /\ stream /\ started /\ ctxDone
    /\ delivered = <<>> /\ Len(produced["stderr"]) = MaxLines
    /\ PipelineTerminated
    /\ wtPc = "offer" /\ finalRecv = <<>>

====
